---- MODULE Spec2Model ----
(***************************************************************************)
(* Polygon_File_Index (cassandra_io/polygon_index.py): a registry of       *)
(* polygons by 'file' key (self._polygons) beside an R-tree of             *)
(* (id, bounding box, payload) entries (self._rtree).                      *)
(*                                                                         *)
(* Coordinates are integers counting units of 1e-7, so that the tolerance  *)
(* of shapely's almost_equals (0.5e-6) is the integer 5.                   *)
(***************************************************************************)
EXTENDS Integers, Sequences, FiniteSets, TLC

VARIABLES
    polygons,   \* self._polygons of the index: key -> polygon ring
    rtree,      \* self._rtree of the index: its entries
    disk,       \* the file save writes and load reads
    res,        \* the index the last call built (a fresh index that was loaded)
    last,       \* the last call: operation, argument, exception, results,
                \* and its writes to the registry and the R-tree, in order
    okKeys      \* keys of the insert and update calls that returned

vars == <<polygons, rtree, disk, res, last, okKeys>>

(* ------------------------------ bounds -------------------------------- *)

\* The largest number of R-tree entries the model lets the index hold.
MaxEntries == 2

\* Width, in bits, of the R-tree's node identifier (a C int64 in the
\* library), scaled down together with the hash values of HashTable.
IdBits == 4

(* ------------------------- geometry (shapely) ------------------------- *)

\* almost_equals(other) is equals_exact(other, 0.5 * 10**-6): 5 units.
Tolerance == 5

SetMin(S) == CHOOSE m \in S : \A x \in S : m <= x

SetMax(S) == CHOOSE m \in S : \A x \in S : m >= x

\* geometry.Polygon(coords) raises ValueError for a ring of one or two
\* coordinates (a linear ring needs at least three).
PolygonRaises(coords) == Len(coords) \in {1, 2}

\* geometry.Polygon(coords): the exterior ring, closed when the caller
\* left it open.
Polygon(coords) ==
    IF coords[1] = coords[Len(coords)] THEN coords
    ELSE Append(coords, coords[1])

\* pl.bounds: (minx, miny, maxx, maxy)
Bounds(pl) ==
    LET xs == {pl[i][1] : i \in DOMAIN pl}
        ys == {pl[i][2] : i \in DOMAIN pl}
    IN  <<SetMin(xs), SetMin(ys), SetMax(xs), SetMax(ys)>>

\* pl.almost_equals(other): same number of vertices, each pair of
\* corresponding vertices within Tolerance of each other.
AlmostEquals(p, q) ==
    /\ Len(p) = Len(q)
    /\ \A i \in DOMAIN p :
          (p[i][1] - q[i][1]) * (p[i][1] - q[i][1])
        + (p[i][2] - q[i][2]) * (p[i][2] - q[i][2]) <= Tolerance * Tolerance

Cross(a, b, pt) ==
    (b[1] - a[1]) * (pt[2] - a[2]) - (b[2] - a[2]) * (pt[1] - a[1])

\* pl.intersects(geometry.Point(pt)) for a convex ring: the point lies in
\* the closed polygon iff it is on one side of every edge (or on it).
Intersects(pl, pt) ==
    LET cs == {Cross(pl[i], pl[i + 1], pt) : i \in 1 .. (Len(pl) - 1)}
    IN  (\A c \in cs : c >= 0) \/ (\A c \in cs : c <= 0)

\* The vertices of a ring, without the closing one.
Vertices(pl) == IF Len(pl) > 1 /\ pl[1] = pl[Len(pl)] THEN SubSeq(pl, 1, Len(pl) - 1) ELSE pl

\* A point is on the inner side of one side of a box (minx, miny, maxx, maxy).
Inside(p, side, box) ==
    CASE side = 1 -> p[1] >= box[1]
      [] side = 2 -> p[2] >= box[2]
      [] side = 3 -> p[1] <= box[3]
      [] side = 4 -> p[2] <= box[4]

\* Where the segment from p to q crosses the line of one side of a box.
Crossing(p, q, side, box) ==
    IF side \in {1, 3}
    THEN <<box[side], p[2] + ((q[2] - p[2]) * (box[side] - p[1])) \div (q[1] - p[1])>>
    ELSE <<p[1] + ((q[1] - p[1]) * (box[side] - p[2])) \div (q[2] - p[2]), box[side]>>

\* The vertices V cut by one side of a box, from vertex i on.
RECURSIVE ClipFrom(_, _, _, _)
ClipFrom(V, side, box, i) ==
    IF i > Len(V) THEN <<>>
    ELSE LET cur == V[i]
             prev == IF i = 1 THEN V[Len(V)] ELSE V[i - 1]
             here == IF Inside(cur, side, box)
                     THEN IF Inside(prev, side, box) THEN <<cur>>
                          ELSE <<Crossing(prev, cur, side, box), cur>>
                     ELSE IF Inside(prev, side, box)
                          THEN <<Crossing(prev, cur, side, box)>>
                          ELSE <<>>
         IN  here \o ClipFrom(V, side, box, i + 1)

\* V without a vertex that repeats the one before it.
RECURSIVE Distinct(_, _)
Distinct(V, i) ==
    IF i > Len(V) THEN <<>>
    ELSE IF i > 1 /\ V[i] = V[i - 1]
    THEN Distinct(V, i + 1)
    ELSE <<V[i]>> \o Distinct(V, i + 1)

\* Twice the signed area of the polygon with vertices V.
RECURSIVE Area2From(_, _)
Area2From(V, i) ==
    IF i > Len(V) THEN 0
    ELSE LET nxt == IF i = Len(V) THEN V[1] ELSE V[i + 1]
         IN  V[i][1] * nxt[2] - nxt[1] * V[i][2] + Area2From(V, i + 1)

\* polygon.intersection(pl) for a polygon that is an axis-parallel
\* rectangle and a convex pl: the vertices of the common region (none when
\* the two are disjoint).
Intersection(polygon, pl) ==
    LET box == Bounds(polygon)
        c1 == ClipFrom(Vertices(pl), 1, box, 1)
        c2 == ClipFrom(c1, 2, box, 1)
        c3 == ClipFrom(c2, 3, box, 1)
        c4 == ClipFrom(c3, 4, box, 1)
    IN  Vertices(Distinct(c4, 1))

\* schnitt.is_empty
IsEmpty(schnitt) == Len(schnitt) = 0

\* isinstance(schnitt, geometry.Polygon): the common region has an area
\* (it is a point or a line otherwise).
IsPolygon(schnitt) == Len(schnitt) >= 3 /\ Area2From(schnitt, 1) # 0

\* list(schnitt.exterior.coords): the closed ring, as a list of tuples.
ExteriorCoords(schnitt) == Polygon(schnitt)

(* --------------------------- hashing, ids ----------------------------- *)

Keys == {"a", "b"}

\* hash_string(string): int(md5(string).hexdigest(), 16), a value wider
\* than the R-tree's identifier.
HashTable == [a |-> 45, b |-> 3]

hash_string(string) == HashTable[string]

\* The R-tree binding passes the identifier as a C signed integer of IdBits
\* bits: a wider Python int is cut to its low bits (two's complement).
ToId(n) ==
    LET m == n % (2 ^ IdBits)
    IN  IF m >= 2 ^ (IdBits - 1) THEN m - 2 ^ IdBits ELSE m

(* ------------------------------ records ------------------------------- *)

\* Coordinate sequences used as inputs.  SqAn is SqA with one vertex moved
\* by less than Tolerance; Tri has the bounding box of SqA; Short is no
\* ring.
SqA == <<<<0, 0>>, <<0, 20>>, <<20, 20>>, <<20, 0>>>>

SqAn == <<<<0, 0>>, <<0, 20>>, <<20, 23>>, <<20, 0>>>>

Tri == <<<<0, 0>>, <<0, 20>>, <<20, 0>>>>

SqB == <<<<40, 40>>, <<40, 60>>, <<60, 60>>, <<60, 40>>>>

Short == <<<<0, 0>>, <<20, 20>>>>

\* The value of a record's 'polygon' field: a list of coordinate pairs,
\* each pair a Python tuple (as the docstring of insert asks) or, once read
\* back from JSON, a list.
Tuples(pts) == [pairs |-> "tuple", pts |-> pts]

Lists(pts) == [pairs |-> "list", pts |-> pts]

\* A record is a dict: a function from field names to values.
Rec(k, coords) == [file |-> k, polygon |-> coords]

RecM(k, coords, m) == [file |-> k, polygon |-> coords, meta |-> m]

\* An extra field whose value pickle cannot serialize (a lambda).
Unpicklable == "lambda"

NoFields == [x \in {} |-> x]

\* The records given to insert and update.
DataCatalog ==
    { Rec("a", Tuples(SqA)), Rec("a", Tuples(SqAn)), Rec("a", Tuples(Tri)),
      RecM("a", Tuples(SqA), "m1"), RecM("a", Tuples(Tri), Unpicklable),
      Rec("b", Tuples(SqB)), Rec("b", Tuples(Tri)),
      RecM("b", Tuples(SqB), Unpicklable),
      Rec("a", Tuples(Short)),
      NoFields, [file |-> "a"], [polygon |-> Tuples(SqA)] }

\* The polygons given to intersect: rectangles, and coordinates that make
\* no ring.  QRect cuts a corner off SqA and SqB and meets Tri in one point;
\* QEdge shares an edge with SqA.
QRect == <<<<10, 10>>, <<10, 50>>, <<50, 50>>, <<50, 10>>>>

QEdge == <<<<20, 0>>, <<20, 20>>, <<30, 20>>, <<30, 0>>>>

QueryCatalog == {QRect, QEdge, Short}

\* The predicates given to filter: the default (everything), the records
\* with a 'meta' field, the record of key "a".
HowCatalog == {"all", "hasmeta", "isa"}

Holds(how, data) ==
    CASE how = "all" -> TRUE
      [] how = "hasmeta" -> "meta" \in DOMAIN data
      [] how = "isa" -> data.file = "a"

\* The field names given to files.
WhatCatalog == {"file", "meta"}

\* The points given to nearest.
PointCatalog == {<<5, 5>>, <<15, 15>>, <<50, 50>>, <<30, 30>>}

(* ------------------------ the R-tree (rtree) -------------------------- *)

\* An index is the pair of self._polygons (key -> polygon ring) and
\* self._rtree (the entries, in the order a traversal reports them).
EmptyPolygons == [k \in {} |-> <<>>]

EmptyIndex == [polygons |-> EmptyPolygons, rtree |-> <<>>]

\* index.insert(id, coordinates, obj) raises before it touches the tree when
\* the payload cannot be pickled.
TreeInsertRaises(obj) == "meta" \in DOMAIN obj /\ obj.meta = Unpicklable

\* index.insert(id, coordinates, obj): always adds an entry, whatever the
\* tree already holds; the payload is stored as a pickled copy.
TreeInsert(T, id, bbox, obj) ==
    Append(T, [id |-> ToId(id), bbox |-> bbox, obj |-> obj])

RemoveAt(T, i) == [j \in 1 .. (Len(T) - 1) |-> IF j < i THEN T[j] ELSE T[j + 1]]

\* index.delete(id, coordinates) comparing the identifier as Python holds
\* it, not as the tree stored it.
TreeDeleteWide(T, id, bbox) ==
    LET hits == {i \in DOMAIN T : T[i].id = id /\ T[i].bbox = bbox}
    IN  IF hits = {} THEN {T} ELSE {RemoveAt(T, i) : i \in hits}

\* index.delete(id, coordinates): removes one entry with that identifier
\* and that box; every tree the call can leave (the tree itself when no
\* entry matches).
TreeDelete(T, id, bbox) ==
    LET hits == {i \in DOMAIN T : T[i].id = ToId(id) /\ T[i].bbox = bbox}
    IN  IF hits = {} THEN {T} ELSE {RemoveAt(T, i) : i \in hits}

\* index.get_size()
TreeSize(T) == Len(T)

\* Squared distance from a point to a box (0 inside it).
BoxDist(bbox, pt) ==
    LET dx == IF pt[1] < bbox[1] THEN bbox[1] - pt[1]
              ELSE IF pt[1] > bbox[3] THEN pt[1] - bbox[3] ELSE 0
        dy == IF pt[2] < bbox[2] THEN bbox[2] - pt[2]
              ELSE IF pt[2] > bbox[4] THEN pt[2] - bbox[4] ELSE 0
    IN  dx * dx + dy * dy

\* The subsequence of T at the positions in I.
RECURSIVE SubSeqAt(_, _, _)
SubSeqAt(T, I, i) ==
    IF i > Len(T) THEN <<>>
    ELSE IF i \in I THEN <<T[i]>> \o SubSeqAt(T, I, i + 1)
    ELSE SubSeqAt(T, I, i + 1)

\* index.nearest(point, 1, objects='raw'): the payloads of the entries
\* whose box is closest to the point, all of them when several tie.
TreeNearest(T, pt) ==
    LET best == {i \in DOMAIN T :
                   \A j \in DOMAIN T : BoxDist(T[i].bbox, pt) <= BoxDist(T[j].bbox, pt)}
        hit == SubSeqAt(T, best, 1)
    IN  [i \in DOMAIN hit |-> hit[i].obj]

\* Two boxes (minx, miny, maxx, maxy) have a point in common.
Overlap(b, c) == ~(b[3] < c[1] \/ c[3] < b[1] \/ b[4] < c[2] \/ c[4] < b[2])

\* index.intersection(coordinates, objects='raw'): the payloads of the
\* entries whose box overlaps the given one.
TreeIntersection(T, bbox) ==
    LET hit == SubSeqAt(T, {i \in DOMAIN T : Overlap(T[i].bbox, bbox)}, 1)
    IN  [i \in DOMAIN hit |-> hit[i].obj]

\* index.intersection(index.bounds, objects='raw'): every payload.
TreeAll(T) == [i \in DOMAIN T |-> T[i].obj]

(* ----------------------- Polygon_File_Index --------------------------- *)

Put(P, k, v) == [x \in (DOMAIN P) \cup {k} |-> IF x = k THEN v ELSE P[x]]

Del(P, k) == [x \in (DOMAIN P) \ {k} |-> P[x]]

\* A write of a call: to the registry ("registry") or to the R-tree
\* ("tree"), for a key.
Wrote(w, k) == [w |-> w, key |-> k]

\* What a call leaves behind: the index, the exception raised ("none" when
\* the call returns), the value returned and the writes it made, in order.
OutS(P, T, err, ret, steps) ==
    [polygons |-> P, rtree |-> T, err |-> err, ret |-> ret, steps |-> steps]

\* A call that wrote nothing.
Out(P, T, err, ret) == OutS(P, T, err, ret, <<>>)

\* The outcome o of the rest of a call that first made the writes in steps.
After(steps, o) == OutS(o.polygons, o.rtree, o.err, o.ret, steps \o o.steps)

\* _check_data(data): "RuntimeError" when 'file' or 'polygon' is missing.
CheckData(data) ==
    IF "file" \notin DOMAIN data THEN "RuntimeError"
    ELSE IF "polygon" \notin DOMAIN data THEN "RuntimeError"
    ELSE "none"

\* insert(data) without the return of line 47: a stored key is overwritten.
DoInsertOverwrite(idx, data) ==
    IF CheckData(data) # "none"
    THEN Out(idx.polygons, idx.rtree, CheckData(data), "none")
    ELSE IF PolygonRaises(data.polygon.pts)
    THEN Out(idx.polygons, idx.rtree, "ValueError", "none")
    ELSE LET pl == Polygon(data.polygon.pts)
             P2 == Put(idx.polygons, data.file, pl)
         IN  IF TreeInsertRaises(data)
             THEN Out(P2, idx.rtree, "PicklingError", "none")
             ELSE Out(P2, TreeInsert(idx.rtree, hash_string(data.file), Bounds(pl), data),
                      "none", "none")

\* insert(data) with the lookup of line 46 ahead of the field check of
\* line 44.
DoInsertLookupFirst(idx, data) ==
    IF "file" \in DOMAIN data /\ data.file \in DOMAIN idx.polygons
    THEN Out(idx.polygons, idx.rtree, "none", "none")
    ELSE DoInsertOverwrite(idx, data)

\* insert(data) with lines 50 and 51 exchanged: the R-tree is written
\* before the registry.
DoInsertTreeFirst(idx, data) ==
    IF CheckData(data) # "none"
    THEN Out(idx.polygons, idx.rtree, CheckData(data), "none")
    ELSE IF data.file \in DOMAIN idx.polygons
    THEN Out(idx.polygons, idx.rtree, "none", "none")
    ELSE IF PolygonRaises(data.polygon.pts)
    THEN Out(idx.polygons, idx.rtree, "ValueError", "none")
    ELSE LET pl == Polygon(data.polygon.pts)
             P2 == Put(idx.polygons, data.file, pl)
         IN  IF TreeInsertRaises(data)
             THEN Out(idx.polygons, idx.rtree, "PicklingError", "none")
             ELSE OutS(P2, TreeInsert(idx.rtree, hash_string(data.file), Bounds(pl), data),
                       "none", "none",
                       <<Wrote("tree", data.file), Wrote("registry", data.file)>>)

\* insert(data)
DoInsert(idx, data) ==
    IF CheckData(data) # "none"
    THEN Out(idx.polygons, idx.rtree, CheckData(data), "none")
    ELSE IF data.file \in DOMAIN idx.polygons
    THEN Out(idx.polygons, idx.rtree, "none", "none")
    ELSE IF PolygonRaises(data.polygon.pts)
    THEN Out(idx.polygons, idx.rtree, "ValueError", "none")
    ELSE LET pl == Polygon(data.polygon.pts)
             P2 == Put(idx.polygons, data.file, pl)
         IN  IF TreeInsertRaises(data)
             THEN OutS(P2, idx.rtree, "PicklingError", "none",
                       <<Wrote("registry", data.file)>>)
             ELSE OutS(P2, TreeInsert(idx.rtree, hash_string(data.file), Bounds(pl), data),
                       "none", "none",
                       <<Wrote("registry", data.file), Wrote("tree", data.file)>>)

\* The value update returns after its call of insert: True, unless insert
\* raised.
Returned(o, ret) ==
    OutS(o.polygons, o.rtree, o.err, IF o.err = "none" THEN ret ELSE "none", o.steps)

\* The writes of lines 72-73 of update: the R-tree's delete, which writes
\* when it finds the entry (T2 is the tree it leaves), then the registry's.
Removed(T, T2, k) ==
    (IF T2 # T THEN <<Wrote("tree", k)>> ELSE <<>>) \o <<Wrote("registry", k)>>

\* update(data) without the comparison of lines 69-70: the stored polygon
\* is always replaced.
DoUpdateAlwaysReplace(idx, data) ==
    IF CheckData(data) # "none"
    THEN {Out(idx.polygons, idx.rtree, CheckData(data), "none")}
    ELSE IF data.file \notin DOMAIN idx.polygons
    THEN {Returned(DoInsert(idx, data), "true")}
    ELSE LET pl == idx.polygons[data.file]
         IN  IF PolygonRaises(data.polygon.pts)
             THEN {Out(idx.polygons, idx.rtree, "ValueError", "none")}
             ELSE {After(Removed(idx.rtree, T2, data.file),
                         Returned(DoInsert([polygons |-> Del(idx.polygons, data.file),
                                            rtree |-> T2], data), "true"))
                     : T2 \in TreeDelete(idx.rtree, hash_string(data.file), Bounds(pl))}

\* update(data): every outcome the call can have (the R-tree's delete
\* picks the entry it removes).
DoUpdate(idx, data) ==
    IF CheckData(data) # "none"
    THEN {Out(idx.polygons, idx.rtree, CheckData(data), "none")}
    ELSE IF data.file \notin DOMAIN idx.polygons
    THEN {Returned(DoInsert(idx, data), "true")}
    ELSE LET pl == idx.polygons[data.file]
         IN  IF PolygonRaises(data.polygon.pts)
             THEN {Out(idx.polygons, idx.rtree, "ValueError", "none")}
             ELSE IF AlmostEquals(pl, Polygon(data.polygon.pts))
             THEN {Out(idx.polygons, idx.rtree, "none", "false")}
             ELSE {After(Removed(idx.rtree, T2, data.file),
                         Returned(DoInsert([polygons |-> Del(idx.polygons, data.file),
                                            rtree |-> T2], data), "true"))
                     : T2 \in TreeDelete(idx.rtree, hash_string(data.file), Bounds(pl))}

\* nearest(point) without the test of lines 88-89: every candidate of the
\* R-tree is yielded.
NearestFromUnchecked(P, cands, pt, i) ==
    [yield |-> cands, err |-> "none"]

\* nearest(point), run to its end: the records yielded, and "KeyError" when
\* a candidate's key is not in self._polygons.
RECURSIVE NearestFrom(_, _, _, _)
NearestFrom(P, cands, pt, i) ==
    IF i > Len(cands) THEN [yield |-> <<>>, err |-> "none"]
    ELSE IF cands[i].file \notin DOMAIN P THEN [yield |-> <<>>, err |-> "KeyError"]
    ELSE LET rest == NearestFrom(P, cands, pt, i + 1)
         IN  IF Intersects(P[cands[i].file], pt)
             THEN [yield |-> <<cands[i]>> \o rest.yield, err |-> rest.err]
             ELSE rest

DoNearest(idx, pt) == NearestFrom(idx.polygons, TreeNearest(idx.rtree, pt), pt, 1)

\* self._rtree.intersection(self._rtree.bounds, ...) raises RTreeError on
\* an empty tree, whose bounds have minimums above maximums.
TraversalRaises(T) == TreeSize(T) = 0

\* A traversal of the R-tree by a call, noted among its steps.
Traversed == Wrote("traverse", "none")

\* What a query leaves behind: the records yielded, the exception raised and
\* the steps it made.
Yielded(yield, err, steps) == [yield |-> yield, err |-> err, steps |-> steps]

\* The traversal self._rtree.intersection(self._rtree.bounds, ...) of files
\* and iterate.  'yield from ()' at an empty R-tree yields nothing and goes
\* on to the traversal, which raises there.
Traversal(T, yield) ==
    IF TraversalRaises(T) THEN Yielded(<<>>, "RTreeError", <<Traversed>>)
    ELSE Yielded(yield, "none", <<Traversed>>)

\* files(what) that passes over the records without the field.
DoFilesPresent(idx, what) ==
    LET T == SubSeqAt(idx.rtree, {i \in DOMAIN idx.rtree : what \in DOMAIN idx.rtree[i].obj}, 1)
    IN  Traversal(idx.rtree, [i \in DOMAIN T |-> T[i].obj[what]])

\* files(what), run to its end: data[what] of every payload, "None" for a
\* payload without the field.
DoFiles(idx, what) ==
    LET T == idx.rtree
    IN  Traversal(T, [i \in DOMAIN T |->
                        IF what \in DOMAIN T[i].obj THEN T[i].obj[what] ELSE "None"])

\* iterate(), run to its end: every payload.
DoIterate(idx) == Traversal(idx.rtree, TreeAll(idx.rtree))

\* What filter and intersect leave behind: the index returned (the empty
\* one when the call raises), the R-tree of self, the exception, the steps.
Derived(r, T, err, steps) == [res |-> r, rtree |-> T, err |-> err, steps |-> steps]

\* The loop of filter over the payloads datas, from the i-th on, r being
\* the index built so far.
RECURSIVE FilterFrom(_, _, _, _, _)
FilterFrom(r, T, datas, how, i) ==
    IF i > Len(datas) THEN Derived(r, T, "none", <<Traversed>>)
    ELSE IF ~Holds(how, datas[i]) THEN FilterFrom(r, T, datas, how, i + 1)
    ELSE LET o == DoInsert(r, datas[i])
         IN  IF o.err # "none" THEN Derived(EmptyIndex, T, o.err, <<Traversed>>)
             ELSE FilterFrom([polygons |-> o.polygons, rtree |-> o.rtree],
                             T, datas, how, i + 1)

\* filter(how)
DoFilter(idx, how) ==
    IF TreeSize(idx.rtree) = 0 THEN Derived(EmptyIndex, idx.rtree, "none", <<>>)
    ELSE FilterFrom(EmptyIndex, idx.rtree, TreeAll(idx.rtree), how, 1)

\* The payload data with its polygon replaced by the boundary of schnitt.
Cut(data, schnitt) == [data EXCEPT !.polygon = Tuples(ExteriorCoords(schnitt))]

\* The loop of intersect over the payloads datas, from the i-th on, r being
\* the index built so far: "KeyError" when a payload's key is not in
\* self._polygons.
RECURSIVE IntersectFrom(_, _, _, _, _, _)
IntersectFrom(P, r, T, polygon, datas, i) ==
    IF i > Len(datas) THEN Derived(r, T, "none", <<Traversed>>)
    ELSE IF datas[i].file \notin DOMAIN P
    THEN Derived(EmptyIndex, T, "KeyError", <<Traversed>>)
    ELSE LET schnitt == Intersection(polygon, P[datas[i].file])
             o == DoInsert(r, Cut(datas[i], schnitt))
         IN  IF IsEmpty(schnitt) \/ ~IsPolygon(schnitt)
             THEN IntersectFrom(P, r, T, polygon, datas, i + 1)
             ELSE IF o.err # "none" THEN Derived(EmptyIndex, T, o.err, <<Traversed>>)
             ELSE IntersectFrom(P, [polygons |-> o.polygons, rtree |-> o.rtree],
                                T, polygon, datas, i + 1)

\* intersect(polygon) with the R-tree handing out its stored payloads, not
\* copies of them: new_data.update rewrites the polygon of the record in
\* the R-tree of self.
DoIntersectInPlace(idx, coords) ==
    LET polygon == Polygon(coords)
        P == idx.polygons
        T == idx.rtree
        hit(x) == /\ Overlap(x.bbox, Bounds(polygon))
                  /\ x.obj.file \in DOMAIN P
                  /\ IsPolygon(Intersection(polygon, P[x.obj.file]))
        T2 == [i \in DOMAIN T |->
                 IF hit(T[i])
                 THEN [T[i] EXCEPT !.obj = Cut(T[i].obj, Intersection(polygon, P[T[i].obj.file]))]
                 ELSE T[i]]
    IN  IF PolygonRaises(coords) THEN Derived(EmptyIndex, T, "ValueError", <<>>)
        ELSE IF TreeSize(T) = 0 THEN Derived(EmptyIndex, T, "none", <<>>)
        ELSE IntersectFrom(P, EmptyIndex, T2, polygon,
                           TreeIntersection(T, Bounds(polygon)), 1)

\* intersect(polygon): the payloads the R-tree hands out with objects='raw'
\* are copies, so the R-tree of self is left as it was.
DoIntersect(idx, coords) ==
    LET polygon == Polygon(coords)
    IN  IF PolygonRaises(coords) THEN Derived(EmptyIndex, idx.rtree, "ValueError", <<>>)
        ELSE IF TreeSize(idx.rtree) = 0 THEN Derived(EmptyIndex, idx.rtree, "none", <<>>)
        ELSE IntersectFrom(idx.polygons, EmptyIndex, idx.rtree, polygon,
                           TreeIntersection(idx.rtree, Bounds(polygon)), 1)

(* --------------------------- persistence ------------------------------ *)

\* json.dump of a payload: a tuple is written as an array, so a coordinate
\* pair given as a tuple is read back as a list; strings are kept.
JsonObject(obj) ==
    [f \in DOMAIN obj |-> IF f = "polygon" THEN Lists(obj[f].pts) ELSE obj[f]]

\* save(fn) writing x.bounds, which is (minx, maxx, miny, maxy), in place
\* of x.bbox.
SaveDataBounds(T) ==
    [i \in DOMAIN T |->
        [id |-> T[i].id,
         bbox |-> <<T[i].bbox[1], T[i].bbox[3], T[i].bbox[2], T[i].bbox[4]>>,
         object |-> JsonObject(T[i].obj)]]

\* The document save(fn) writes: one {'id', 'bbox', 'object'} per entry of
\* the traversal.
SaveData(T) ==
    [i \in DOMAIN T |->
        [id |-> T[i].id, bbox |-> T[i].bbox, object |-> JsonObject(T[i].obj)]]

\* save(fn): the file left behind and the exception raised.  The file is
\* opened only after the traversal.
DoSave(idx, file) ==
    IF TraversalRaises(idx.rtree) THEN [file |-> file, err |-> "RTreeError"]
    ELSE [file |-> [exists |-> TRUE, data |-> SaveData(idx.rtree)], err |-> "none"]

\* The loop of load(fn) from entry i on.
RECURSIVE LoadFrom(_, _, _, _)
LoadFrom(P, T, doc, i) ==
    IF i > Len(doc) THEN Out(P, T, "none", "none")
    ELSE LET x == doc[i]
         IN  IF "object" \notin DOMAIN x \/ CheckData(x.object) # "none"
             THEN LoadFrom(P, T, doc, i + 1)
             ELSE IF "id" \notin DOMAIN x \/ "bbox" \notin DOMAIN x
             THEN Out(P, T, "KeyError", "none")
             ELSE LET T2 == TreeInsert(T, x.id, x.bbox, x.object)
                      k == x.object.file
                  IN  IF PolygonRaises(x.object.polygon.pts)
                      THEN OutS(P, T2, "ValueError", "none", <<Wrote("tree", k)>>)
                      ELSE After(<<Wrote("tree", k), Wrote("registry", k)>>,
                                 LoadFrom(Put(P, k, Polygon(x.object.polygon.pts)),
                                          T2, doc, i + 1))

\* load(fn)
DoLoad(idx, file) ==
    IF ~file.exists THEN Out(idx.polygons, idx.rtree, "FileNotFoundError", "none")
    ELSE LoadFrom(idx.polygons, idx.rtree, file.data, 1)

\* Files that did not come from save of this index.
EntryOf(k, pts) ==
    [id |-> ToId(hash_string(k)), bbox |-> Bounds(Polygon(pts)),
     object |-> Rec(k, Lists(pts))]

File(doc) == [exists |-> TRUE, data |-> doc]

NoFile == [exists |-> FALSE, data |-> <<>>]

\* the save of another index that holds key "a" with the triangle
FileOther == File(<<EntryOf("a", Tri)>>)

\* an entry without payload, one whose payload has no polygon, a good one
FileGaps == File(<<[id |-> 1, bbox |-> <<0, 0, 1, 1>>],
                   [id |-> 2, bbox |-> <<0, 0, 1, 1>>, object |-> [file |-> "b"]],
                   EntryOf("b", SqB)>>)

\* a good entry, then one with payload and box but no id
FileNoId == File(<<EntryOf("b", SqB),
                   [bbox |-> <<0, 0, 20, 20>>, object |-> Rec("a", Lists(SqA))]>>)

\* an entry whose coordinates make no ring
FileShort == File(<<[id |-> 1, bbox |-> <<0, 0, 20, 20>>,
                     object |-> Rec("b", Lists(Short))]>>)

\* an entry whose id and box are not those of its key and polygon
FileForeign == File(<<[id |-> 7, bbox |-> <<0, 0, 5, 5>>,
                       object |-> Rec("b", Lists(SqB))]>>)

FileCatalog == {FileOther, FileGaps, FileNoId, FileShort, FileForeign}

(* --------------------------- state machine ---------------------------- *)

Self == [polygons |-> polygons, rtree |-> rtree]

Call(op, arg, err, ret, yield, steps) ==
    [op |-> op, arg |-> arg, err |-> err, ret |-> ret, yield |-> yield,
     steps |-> steps]

Init ==
    /\ polygons = EmptyPolygons
    /\ rtree = <<>>
    /\ disk = NoFile
    /\ res = EmptyIndex
    /\ last = Call("init", "none", "none", "none", <<>>, <<>>)
    /\ okKeys = {}

Noted(o, data) ==
    IF o.err = "none" THEN okKeys \cup {data.file} ELSE okKeys

Insert(data) ==
    LET o == DoInsert(Self, data)
    IN  /\ TreeSize(o.rtree) <= MaxEntries
        /\ polygons' = o.polygons
        /\ rtree' = o.rtree
        /\ last' = Call("insert", data, o.err, o.ret, <<>>, o.steps)
        /\ okKeys' = Noted(o, data)
        /\ res' = EmptyIndex
        /\ UNCHANGED disk

Update(data) ==
    \E o \in DoUpdate(Self, data) :
        /\ TreeSize(o.rtree) <= MaxEntries
        /\ polygons' = o.polygons
        /\ rtree' = o.rtree
        /\ last' = Call("update", data, o.err, o.ret, <<>>, o.steps)
        /\ okKeys' = Noted(o, data)
        /\ res' = EmptyIndex
        /\ UNCHANGED disk

Nearest(pt) ==
    LET o == DoNearest(Self, pt)
    IN  /\ last' = Call("nearest", pt, o.err, "none", o.yield, <<>>)
        /\ res' = EmptyIndex
        /\ UNCHANGED <<polygons, rtree, disk, okKeys>>

Save ==
    LET o == DoSave(Self, disk)
    IN  /\ disk' = o.file
        /\ last' = Call("save", "none", o.err, "none", <<>>, <<>>)
        /\ res' = EmptyIndex
        /\ UNCHANGED <<polygons, rtree, okKeys>>

\* load(fn) on the index.
Load(file) ==
    LET o == DoLoad(Self, file)
    IN  /\ TreeSize(o.rtree) <= MaxEntries
        /\ polygons' = o.polygons
        /\ rtree' = o.rtree
        /\ last' = Call("load", file, o.err, "none", <<>>, o.steps)
        /\ res' = EmptyIndex
        /\ UNCHANGED <<disk, okKeys>>

Files(what) ==
    LET o == DoFiles(Self, what)
    IN  /\ last' = Call("files", what, o.err, "none", o.yield, o.steps)
        /\ res' = EmptyIndex
        /\ UNCHANGED <<polygons, rtree, disk, okKeys>>

Iterate ==
    LET o == DoIterate(Self)
    IN  /\ last' = Call("iterate", "none", o.err, "none", o.yield, o.steps)
        /\ res' = EmptyIndex
        /\ UNCHANGED <<polygons, rtree, disk, okKeys>>

Filter(how) ==
    LET o == DoFilter(Self, how)
    IN  /\ res' = o.res
        /\ rtree' = o.rtree
        /\ last' = Call("filter", how, o.err, "none", <<>>, o.steps)
        /\ UNCHANGED <<polygons, disk, okKeys>>

Intersect(coords) ==
    LET o == DoIntersect(Self, coords)
    IN  /\ res' = o.res
        /\ rtree' = o.rtree
        /\ last' = Call("intersect", coords, o.err, "none", <<>>, o.steps)
        /\ UNCHANGED <<polygons, disk, okKeys>>

\* Polygon_File_Index() followed by load(fn) of the saved file on it.
LoadFresh ==
    LET o == DoLoad(EmptyIndex, disk)
    IN  /\ res' = [polygons |-> o.polygons, rtree |-> o.rtree]
        /\ last' = Call("loadfresh", "none", o.err, "none", <<>>, o.steps)
        /\ UNCHANGED <<polygons, rtree, disk, okKeys>>

\* The index under insert, update, nearest and load of files that other
\* indexes saved or other programs wrote.
Next ==
    \/ \E data \in DataCatalog : Insert(data)
    \/ \E data \in DataCatalog : Update(data)
    \/ \E pt \in PointCatalog : Nearest(pt)
    \/ \E file \in FileCatalog : Load(file)

Spec == Init /\ [][Next]_vars

\* The index under insert and update alone, saved at any moment, the saved
\* file loaded into a new index at any moment.
NextSaved ==
    \/ \E data \in DataCatalog : Insert(data)
    \/ \E data \in DataCatalog : Update(data)
    \/ Save
    \/ LoadFresh

SpecSaved == Init /\ [][NextSaved]_vars

\* The index filled by insert and by load of a file holding a record of a
\* stored key or a record with a bad polygon, under the queries.
NextQuery ==
    \/ \E data \in DataCatalog : Insert(data)
    \/ \E file \in {FileOther, FileShort} : Load(file)
    \/ \E pt \in PointCatalog : Nearest(pt)
    \/ \E what \in WhatCatalog : Files(what)
    \/ Iterate
    \/ \E how \in HowCatalog : Filter(how)
    \/ \E coords \in QueryCatalog : Intersect(coords)

SpecQuery == Init /\ [][NextQuery]_vars

\* insert(data) on the index while the index that intersect returned is held.
InsertHeld(data) ==
    LET o == DoInsert(Self, data)
    IN  /\ polygons' = o.polygons
        /\ rtree' = o.rtree
        /\ last' = Call("insert", data, o.err, o.ret, <<>>, o.steps)
        /\ okKeys' = Noted(o, data)
        /\ UNCHANGED <<res, disk>>

\* insert(data) on the index that intersect returned: res is a
\* Polygon_File_Index of its own (line 100), with the dict and the R-tree
\* that its __init__ made.
ResInsert(data) ==
    LET o == DoInsert(res, data)
    IN  /\ res' = [polygons |-> o.polygons, rtree |-> o.rtree]
        /\ last' = Call("res.insert", data, o.err, o.ret, <<>>, o.steps)
        /\ UNCHANGED <<polygons, rtree, disk, okKeys>>

\* The records inserted while an index returned by intersect is held.
HeldCatalog ==
    {Rec("a", Tuples(SqA)), Rec("a", Tuples(Tri)), Rec("b", Tuples(SqB)),
     RecM("b", Tuples(SqB), "m1"), RecM("a", Tuples(SqA), Unpicklable)}

\* The index and the index that intersect returned, each under insert.
NextHeld ==
    \/ \E data \in HeldCatalog : InsertHeld(data)
    \/ \E coords \in QueryCatalog : Intersect(coords)
    \/ \E data \in HeldCatalog : ResInsert(data)

SpecHeld == Init /\ [][NextHeld]_vars

(* ------------------------------ claims -------------------------------- *)

\* The keys of the R-tree's entries, and the entries of one key.
TreeKeys(T) == {T[i].obj.file : i \in DOMAIN T}

EntriesOf(T, k) == {i \in DOMAIN T : T[i].obj.file = k}

\* The last call was insert or update of a record with both fields.
WellFormedCall(call, op) ==
    /\ call.op = op
    /\ CheckData(call.arg) = "none"

\* C1: in every state reached by insert, update and load calls the R-tree
\* holds exactly one entry for each key of the registry and none for any
\* other key, so the number of entries is the number of registry keys.
C1_TreeMatchesRegistry ==
    /\ \A k \in DOMAIN polygons : Cardinality(EntriesOf(rtree, k)) = 1
    /\ TreeKeys(rtree) \subseteq DOMAIN polygons
    /\ TreeSize(rtree) = Cardinality(DOMAIN polygons)

\* C2: insert of a record whose key is already in the registry leaves the
\* registry, the R-tree's entries and size() as they were, whatever the
\* polygon and the extra fields of the record.
C2_InsertStoredKeyNoOp ==
    [][(/\ last'.op = "insert"
        /\ "file" \in DOMAIN last'.arg
        /\ last'.arg.file \in DOMAIN polygons)
       => (/\ polygons' = polygons
           /\ rtree' = rtree
           /\ TreeSize(rtree') = TreeSize(rtree))]_vars

\* C2 happens: insert returned for a stored key whose record carries another
\* polygon than the registry's and other fields than the stored payload.
C2_Witness ==
    /\ WellFormedCall(last, "insert")
    /\ last.err = "none"
    /\ last.arg.file \in DOMAIN polygons
    /\ ~PolygonRaises(last.arg.polygon.pts)
    /\ polygons[last.arg.file] # Polygon(last.arg.polygon.pts)
    /\ \E i \in EntriesOf(rtree, last.arg.file) :
          DOMAIN rtree[i].obj # DOMAIN last.arg

\* The call is update of a stored key with a polygon that can be built.
UpdateOfStored(call, P) ==
    /\ WellFormedCall(call, "update")
    /\ call.arg.file \in DOMAIN P
    /\ ~PolygonRaises(call.arg.polygon.pts)

\* C3: update of a stored key with a polygon not almost equal to the stored
\* one returns true, leaves size() unchanged, and leaves the registry with
\* the new polygon and the R-tree with exactly one entry for the key, which
\* carries the new record and the new polygon's box.
C3_UpdateReplaces ==
    [][(/\ UpdateOfStored(last', polygons)
        /\ ~AlmostEquals(polygons[last'.arg.file], Polygon(last'.arg.polygon.pts)))
       => (LET k == last'.arg.file
               pl == Polygon(last'.arg.polygon.pts)
           IN  /\ last'.ret = "true"
               /\ TreeSize(rtree') = TreeSize(rtree)
               /\ k \in DOMAIN polygons'
               /\ polygons'[k] = pl
               /\ Cardinality(EntriesOf(rtree', k)) = 1
               /\ \A i \in EntriesOf(rtree', k) :
                     /\ rtree'[i].obj = last'.arg
                     /\ rtree'[i].bbox = Bounds(pl))]_vars

\* C4: update of a stored key with a polygon almost equal to the stored one
\* returns false and changes neither the registry nor the R-tree (the
\* stored payload keeps its own extra fields).
C4_UpdateUnchanged ==
    [][(/\ UpdateOfStored(last', polygons)
        /\ AlmostEquals(polygons[last'.arg.file], Polygon(last'.arg.polygon.pts)))
       => (/\ last'.ret = "false"
           /\ last'.err = "none"
           /\ polygons' = polygons
           /\ rtree' = rtree)]_vars

\* C4 happens: update returned false for a polygon that is almost but not
\* exactly the stored one, given in a record with other fields than the
\* stored payload.
C4_Witness ==
    /\ UpdateOfStored(last, polygons)
    /\ last.ret = "false"
    /\ polygons[last.arg.file] # Polygon(last.arg.polygon.pts)
    /\ AlmostEquals(polygons[last.arg.file], Polygon(last.arg.polygon.pts))
    /\ \E i \in EntriesOf(rtree, last.arg.file) :
          DOMAIN rtree[i].obj # DOMAIN last.arg

\* C5: after insert and update calls on an empty index, size() is the
\* number of distinct keys of the insert and update calls that returned.
C5_SizeCountsKeys == TreeSize(rtree) = Cardinality(okKeys)

\* C6: insert or update of a record without 'file' or without 'polygon'
\* raises the malformed-record error and leaves the registry and the R-tree
\* as they were.
C6_MalformedRejected ==
    [][(/\ last'.op \in {"insert", "update"}
        /\ ("file" \notin DOMAIN last'.arg \/ "polygon" \notin DOMAIN last'.arg))
       => (/\ last'.err = "RuntimeError"
           /\ polygons' = polygons
           /\ rtree' = rtree)]_vars

\* C6 happens: a record with the key of a stored record and no polygon was
\* rejected by an index that holds records.
C6_Witness ==
    /\ last.op \in {"insert", "update"}
    /\ last.err = "RuntimeError"
    /\ "file" \in DOMAIN last.arg
    /\ last.arg.file \in DOMAIN polygons
    /\ TreeSize(rtree) > 0

\* C7: an insert or update call that raises, at whichever step, leaves the
\* registry and the R-tree as they were before the call.
C7_AllOrNothing ==
    [][(last'.op \in {"insert", "update"} /\ last'.err # "none")
       => (polygons' = polygons /\ rtree' = rtree)]_vars

\* The saved file holds what save writes for the index as it is now.
SavedNow == disk.exists /\ disk.data = SaveData(rtree)

WellFormedEntry(x) ==
    /\ {"id", "bbox", "object"} \subseteq DOMAIN x
    /\ CheckData(x.object) = "none"

\* Every payload of the file that has coordinates has a ring of them.
RingsOnly(doc) ==
    \A i \in DOMAIN doc :
        ("object" \in DOMAIN doc[i] /\ "polygon" \in DOMAIN doc[i].object)
            => ~PolygonRaises(doc[i].object.polygon.pts)

\* C9: load of a file that parses as a sequence of entries (here: one
\* whose coordinates all make rings) raises nothing, and every well-formed
\* entry of the file, also one after a malformed entry, is in the registry
\* and in the R-tree afterwards.
C9_LoadSkipsMalformed ==
    (last.op = "load" /\ RingsOnly(last.arg.data))
        => (/\ last.err = "none"
            /\ \A i \in DOMAIN last.arg.data :
                  WellFormedEntry(last.arg.data[i])
                      => (/\ last.arg.data[i].object.file \in DOMAIN polygons
                          /\ \E j \in DOMAIN rtree :
                                rtree[j].obj = last.arg.data[i].object))

\* C10: every record nearest(point) yields is the payload of an R-tree
\* entry whose key has a registry polygon that contains the point; a
\* candidate of the R-tree whose polygon does not contain it is not yielded.
C10_NearestValidated ==
    last.op = "nearest"
        => \A i \in DOMAIN last.yield :
              /\ \E j \in DOMAIN rtree : rtree[j].obj = last.yield[i]
              /\ last.yield[i].file \in DOMAIN polygons
              /\ Intersects(polygons[last.yield[i].file], last.arg)

\* C10 happens: the R-tree gave a candidate whose box holds the point and
\* whose polygon does not, and nearest did not yield it.
C10_Witness ==
    /\ last.op = "nearest"
    /\ last.err = "none"
    /\ \E j \in DOMAIN rtree :
          /\ BoxDist(rtree[j].bbox, last.arg) = 0
          /\ rtree[j].obj.file \in DOMAIN polygons
          /\ ~Intersects(polygons[rtree[j].obj.file], last.arg)
          /\ \A i \in DOMAIN last.yield : last.yield[i] # rtree[j].obj

\* The writes an insert makes, all or only the first: registry, then tree.
InsertWrites(k) ==
    {<<>>, <<Wrote("registry", k)>>, <<Wrote("registry", k), Wrote("tree", k)>>}

\* lines 72-73 of update: the R-tree (when the entry is found), then the
\* registry.
RemoveWrites(k) ==
    {<<Wrote("tree", k), Wrote("registry", k)>>, <<Wrote("registry", k)>>}

\* C17 as stated: in every insert, update and load, a write to the R-tree
\* for a key comes after a write to the registry for that key, made by the
\* same call.
C17_RegistryFirst ==
    last.op \in {"insert", "update", "load"}
        => \A i \in DOMAIN last.steps :
              last.steps[i].w = "tree"
                  => \E j \in 1 .. (i - 1) :
                        /\ last.steps[j].w = "registry"
                        /\ last.steps[j].key = last.steps[i].key

\* C17 as amended: insert writes the registry and then the R-tree; update,
\* when it replaces, first deletes from the R-tree, then from the registry,
\* and then writes as insert does; load writes, entry by entry, the R-tree
\* and then the registry.
C17_WriteOrder ==
    /\ last.op = "insert" /\ "file" \in DOMAIN last.arg
          => last.steps \in InsertWrites(last.arg.file)
    /\ last.op = "update" /\ "file" \in DOMAIN last.arg
          => \E pre \in {<<>>} \cup RemoveWrites(last.arg.file) :
                \E ins \in InsertWrites(last.arg.file) :
                    last.steps = pre \o ins
    /\ last.op = "load"
          => \A i \in DOMAIN last.steps :
                IF i % 2 = 1 THEN last.steps[i].w = "tree"
                ELSE /\ last.steps[i].w = "registry"
                     /\ last.steps[i].key = last.steps[i - 1].key

\* C17 happens: an update replaced a stored record, by four writes.
C17_Witness ==
    /\ last.op = "update"
    /\ last.ret = "true"
    /\ Len(last.steps) = 4

\* C15: in every state reached by insert, update and load calls, the box of
\* each R-tree entry is the bounds of the registry polygon of its key.
C15_BoxNeverStale ==
    \A i \in DOMAIN rtree :
        rtree[i].obj.file \in DOMAIN polygons
            => rtree[i].bbox = Bounds(polygons[rtree[i].obj.file])

C13_EmptyQueriesQuiet ==
    /\ polygons = EmptyPolygons
    /\ rtree = <<>>
    /\ last.op \in {"nearest", "files", "iterate", "filter", "intersect"}
    /\ last.op = "intersect" => ~PolygonRaises(last.arg)
    => /\ last.err = "none"
       /\ last.yield = <<>>
       /\ res = EmptyIndex
       /\ \A i \in DOMAIN last.steps : last.steps[i] # Traversed

Records(T) == {T[i].obj : i \in DOMAIN T}

\* The polygon of every record of T makes a ring.
RingRecords(T) == \A x \in Records(T) : ~PolygonRaises(x.polygon.pts)

\* C12: filter(predicate), on an index whose records all have a polygon
\* that makes a ring, raises nothing and returns an index whose records are
\* the records of the source for which the predicate holds, each as it is
\* in the source.
C12_FilterExact ==
    last.op = "filter" /\ RingRecords(rtree)
        => /\ last.err = "none"
           /\ Records(res.rtree) = {x \in Records(rtree) : Holds(last.arg, x)}

\* The intersection of the polygon of the record of an R-tree entry with
\* the polygon of the given coordinates.
Schnitt(coords, x) == Intersection(Polygon(coords), Polygon(x.obj.polygon.pts))

\* The entries of T that survive intersect(coords): the box overlaps the
\* box of the polygon and the intersection is a polygon.
Surviving(T, coords) ==
    {i \in DOMAIN T : /\ Overlap(T[i].bbox, Bounds(Polygon(coords)))
                       /\ IsPolygon(Schnitt(coords, T[i]))}

\* C16: intersect(polygon) of a polygon that is one, on an index whose
\* records all have a polygon that makes a ring, raises nothing and returns
\* an index with one record for each surviving record of the source: that
\* record with its polygon replaced by the boundary of its intersection
\* with the query polygon.
C16_IntersectExact ==
    last.op = "intersect" /\ ~PolygonRaises(last.arg) /\ RingRecords(rtree)
        => /\ last.err = "none"
           /\ TreeSize(res.rtree) = Cardinality(Surviving(rtree, last.arg))
           /\ Records(res.rtree)
                 = {Cut(rtree[i].obj, Schnitt(last.arg, rtree[i]))
                      : i \in Surviving(rtree, last.arg)}

\* C11: intersect leaves the registry, the R-tree entries (identifiers,
\* boxes, payloads) and the size of its source as they were; an insert into
\* the source leaves the returned index as it was, and an insert into the
\* returned index leaves the source as it was.
C11_IntersectIndependent ==
    [][/\ last'.op = "intersect"
            => /\ polygons' = polygons
               /\ rtree' = rtree
               /\ TreeSize(rtree') = TreeSize(rtree)
       /\ last'.op = "insert" => res' = res
       /\ last'.op = "res.insert" => polygons' = polygons /\ rtree' = rtree]_vars

\* C11 happens: intersect cut the record of "a" to a corner of its square,
\* a record of another key was then inserted into the returned index, and
\* the source holds the whole square and nothing else.
C11_Witness ==
    /\ last.op = "res.insert"
    /\ Len(last.steps) = 2
    /\ TreeSize(res.rtree) = 2
    /\ TreeSize(rtree) = 1
    /\ rtree[1].obj = Rec("a", Tuples(SqA))
    /\ res.rtree[1].obj
          = Rec("a", Tuples(ExteriorCoords(Intersection(Polygon(QRect), Polygon(SqA)))))

====
